---- MODULE Spec2Model ----
(***************************************************************************)
(* Model of fetcher.Github (fetcher/fetcher_github.go): a poller that      *)
(* looks up the latest release, or the latest successful workflow run, of  *)
(* a repository, picks the first asset/artifact whose name satisfies       *)
(* Match, and returns its body unless the dedup cursor (latestRelease /    *)
(* latestRun) says it was delivered already.                               *)
(*                                                                         *)
(* Every remote call is a blocking point: the position "X" of a caller     *)
(* means "X has been issued and has not returned"; the action XDone is the *)
(* return of the call together with the code that runs up to the next      *)
(* blocking point or the return of Fetch.  The answer of the remote side   *)
(* is an input of XDone.                                                   *)
(*                                                                         *)
(* The clock unit is thirty seconds.  Only the time spent in time.Sleep is  *)
(* counted; everything else takes no time at least.                        *)
(***************************************************************************)
EXTENDS Integers, Sequences, FiniteSets, TLC

\* ---------------------------------------------------------------- bounds
MaxAssets   == 2   \* longest asset / artifact listing the remote side returns
MaxTime     == 1   \* asset update timestamps are 0..MaxTime, 0 the zero time.Time
MaxRunId    == 1   \* workflow run ids are 0..MaxRunId
MaxInterval == 3   \* configured Interval is 0..MaxInterval
MaxEntries  == 2   \* most entries of a downloaded archive

\* ------------------------------------------------------ program constants
Minute == 2        \* time.Minute, in clock units
GOOS   == "linux"
GOARCH == "amd64"

\* -------------------------------------------------------------- universes
Procs  == {1, 2}   \* callers of Fetch
Caller == 1        \* the single poll loop of the sequential specification

Names == { <<"app", "linux", "amd64">>,
           <<"app", "darwin", "amd64">>,
           <<"app", "linux", "amd64", "sha256">> }

Times  == 0..MaxTime
RunIds == 0..MaxRunId

Assets    == [name : Names, updated : Times]
Artifacts == [name : Names]

SeqsUpTo(S, n) == UNION { [1..k -> S] : k \in 0..n }

AssetLists    == SeqsUpTo(Assets, MaxAssets)
ArtifactLists == SeqsUpTo(Artifacts, MaxAssets)
RunLists      == SeqsUpTo(RunIds, 1)      \* PerPage: 1

\* Bytes of an archive: a magic byte, the entry count, then the entries,
\* each one byte long here.
ZipBytes(entries) == <<80, Len(entries)>> \o entries
\* The archives have the entries <<k>>, <<k - 1>>, ..., <<1>>.
EntryLists == { [i \in 1..k |-> k + 1 - i] : k \in 0..MaxEntries }
Bodies     == { ZipBytes(es) : es \in EntryLists } \cup { <<7>> }

MaxElapsed == MaxInterval + 1
Min(a, b)  == IF a < b THEN a ELSE b

\* ------------------------------------------------------------------ state
VARIABLES
    User, Repo, Interval, Match, Context, Artifact,   \* configuration fields
    delay, latestRelease, latestRun, clients,         \* internal state
    initErr,       \* what Init returned: "none" while it has not been called
    ctxDone,       \* the Done channel of Context is closed
    cancelAt,      \* where each caller was when the context became done
    elapsed,       \* lower bound of the clock time since the last remote call
                   \* returned: the time spent in time.Sleep
    fetched,       \* a Fetch call has started
    lastDelivered, \* identity of the last delivered item, -1 before any
    pc,            \* position of each caller
    ret,           \* what the last Fetch of each caller returned
    frame          \* locals of the running Fetch of each caller

cfg   == <<User, Repo, Interval, Match, Context, Artifact>>
inner == <<delay, latestRelease, latestRun, clients>>
env   == <<ctxDone, cancelAt, elapsed>>
ghost == <<fetched, lastDelivered>>
vars  == <<cfg, inner, initErr, env, ghost, pc, ret, frame>>

NoRet == [has |-> FALSE, stream |-> <<>>, err |-> "", cause |-> ""]

NoFrame == [assets |-> <<>>, runs |-> <<>>, artifacts |-> <<>>,
            sel |-> 0, body |-> <<>>, calls |-> <<>>,
            preRelease |-> 0, preRun |-> 0,
            preDelivered |-> -1, before |-> -1, retryOf |-> -1,
            slept |-> 0, gap |-> 0, first |-> FALSE, answers |-> <<>>,
            sawDelay |-> "unread", cmp |-> -1]

\* A Github value as a caller builds it, before Init.
Init ==
    /\ User \in {"", "glaslos"}
    /\ Repo \in {"", "overseer"}
    /\ Interval \in 0..MaxInterval
    /\ Match \in {"nil", "checksum"}
    /\ Context \in {"nil", "cancellable"}
    /\ Artifact \in BOOLEAN
    /\ delay = FALSE
    /\ latestRelease = 0
    /\ latestRun = 0
    /\ clients = FALSE
    /\ initErr = "none"
    /\ ctxDone = FALSE
    /\ cancelAt = [p \in Procs |-> ""]
    /\ elapsed = 0
    /\ fetched = FALSE
    /\ lastDelivered = -1
    /\ pc = [p \in Procs |-> "idle"]
    /\ ret = [p \in Procs |-> NoRet]
    /\ frame = [p \in Procs |-> NoFrame]

\* --------------------------------------------------------------- helpers
Contains(filename, tok) == \E i \in 1..Len(filename) : filename[i] = tok

defaultAsset(filename) == Contains(filename, GOOS) /\ Contains(filename, GOARCH)

\* h.Match(filename): the default, or the caller's predicate (here: the
\* file is a checksum file).
MatchFn(filename) ==
    IF Match = "defaultAsset" THEN defaultAsset(filename)
    ELSE Contains(filename, "sha256")

\* The range loops of fetchLatestRelease / fetchLatestArtifact: the index of
\* the first item of list whose name matches, from index i on; 0 if none.
RECURSIVE Scan(_, _)
Scan(list, i) ==
    IF i > Len(list) THEN 0
    ELSE IF MatchFn(list[i].name) THEN i
    ELSE Scan(list, i + 1)

\* Faulty variant: the loop keeps going and the last matching item wins.
LastMatch(list) ==
    LET M == { i \in 1..Len(list) : MatchFn(list[i].name) }
    IN  IF M = {} THEN 0 ELSE CHOOSE i \in M : \A j \in M : j <= i

\* Faulty variant: when nothing matches, the first item is taken.
MatchOrFirst(list) ==
    IF Scan(list, 1) = 0 /\ Len(list) > 0 THEN 1 ELSE Scan(list, 1)

FirstMatch(list) == Scan(list, 1)

\* Faulty variant: "not newer than the cursor" in the place of "equal to the cursor".
ReleaseNotNewer(t) == latestRelease >= t

\* h.latestRelease == asset.UpdatedAt.Time
ReleaseSeen(t) == latestRelease = t

\* Faulty variant: "older than the cursor" in the place of "equal to the cursor".
RunOlder(id) == latestRun > id

\* Faulty variant: a run counts as delivered when its id is above the cursor.
RunNewer(id) == latestRun < id

\* h.latestRun == runs.WorkflowRuns[0].GetID()
RunSeen(id) == latestRun = id

\* len(runs.WorkflowRuns) == 0
NoRuns(runs) == Len(runs) = 0

\* Faulty variant: the empty artifact listing is not detected.
NoArtifactsMissed(artifacts) == Len(artifacts) < 0

\* len(artifacts.Artifacts) == 0
NoArtifacts(artifacts) == Len(artifacts) = 0

\* ------------------------------------------------------------------ Init()
\* Faulty variant: the check of Repo is missing.
InitWithoutRepoCheck ==
    /\ initErr = "none"
    /\ IF User = ""
       THEN /\ initErr' = "user required"
            /\ UNCHANGED <<cfg, clients>>
       ELSE /\ Match' = IF Match = "nil" THEN "defaultAsset" ELSE Match
            /\ Interval' = IF Interval < Minute THEN Minute ELSE Interval
            /\ Context' = IF Context = "nil" THEN "background" ELSE Context
            /\ clients' = TRUE
            /\ initErr' = "ok"
            /\ UNCHANGED <<User, Repo, Artifact>>
    /\ UNCHANGED <<delay, latestRelease, latestRun, env, ghost, pc, ret, frame>>

\* Faulty variant: only a missing Interval gets the floor.
InitFloorOnlyForZero ==
    /\ initErr = "none"
    /\ IF User = ""
       THEN /\ initErr' = "user required"
            /\ UNCHANGED <<cfg, clients>>
       ELSE IF Repo = ""
       THEN /\ initErr' = "repo required"
            /\ UNCHANGED <<cfg, clients>>
       ELSE /\ Match' = IF Match = "nil" THEN "defaultAsset" ELSE Match
            /\ Interval' = IF Interval = 0 THEN Minute ELSE Interval
            /\ Context' = IF Context = "nil" THEN "background" ELSE Context
            /\ clients' = TRUE
            /\ initErr' = "ok"
            /\ UNCHANGED <<User, Repo, Artifact>>
    /\ UNCHANGED <<delay, latestRelease, latestRun, env, ghost, pc, ret, frame>>

GithubInit ==
    /\ initErr = "none"
    /\ IF User = ""
       THEN /\ initErr' = "user required"
            /\ UNCHANGED <<cfg, clients>>
       ELSE IF Repo = ""
       THEN /\ initErr' = "repo required"
            /\ UNCHANGED <<cfg, clients>>
       ELSE /\ Match' = IF Match = "nil" THEN "defaultAsset" ELSE Match
            /\ Interval' = IF Interval < Minute THEN Minute ELSE Interval
            /\ Context' = IF Context = "nil" THEN "background" ELSE Context
            /\ clients' = TRUE
            /\ initErr' = "ok"
            /\ UNCHANGED <<User, Repo, Artifact>>
    /\ UNCHANGED <<delay, latestRelease, latestRun, env, ghost, pc, ret, frame>>

\* ------------------------------------------------------------ environment
\* The owner of the context cancels it (or its deadline passes).
Cancel ==
    /\ Context = "cancellable"
    /\ ~ctxDone
    /\ ctxDone' = TRUE
    /\ cancelAt' = pc
    /\ UNCHANGED <<cfg, inner, initErr, elapsed, ghost, pc, ret, frame>>

\* ------------------------------------------------------------------ Fetch()
Busy == { "Fetch", "Sleep", "SetDelay", "GetLatestRelease", "DownloadReleaseAsset",
          "ListRuns", "ListArtifacts", "DownloadArtifact", "HttpGet" }

\* Positions in which a remote call is in flight.
InCall == { "GetLatestRelease", "DownloadReleaseAsset",
            "ListRuns", "ListArtifacts", "DownloadArtifact", "HttpGet" }

\* What a go-github call that takes h.Context returns: the context's error
\* once the context is done, the outcome of the exchange otherwise.
WithContext(out) == IF ctxDone THEN "canceled" ELSE out

\* return stream, err
Return(p, has, stream, err, cause) ==
    /\ pc' = [pc EXCEPT ![p] = "done"]
    /\ ret' = [ret EXCEPT ![p] = [has |-> has, stream |-> stream,
                                  err |-> err, cause |-> cause]]

\* Issue the remote call `call` and block in it.
Issue(p, call, fr) ==
    /\ pc' = [pc EXCEPT ![p] = call]
    /\ frame' = [frame EXCEPT ![p] = [fr EXCEPT !.calls = Append(fr.calls, call)]]
    /\ ret' = ret

\* The identity of the candidate whose download failed in the Fetch caller p
\* has returned from; -1 if there was no such download.
FailedDownloadOf(p) ==
    IF /\ pc[p] = "done"
       /\ \E i \in 1..Len(frame[p].answers) :
             /\ frame[p].calls[i] \in {"DownloadReleaseAsset", "DownloadArtifact", "HttpGet"}
             /\ frame[p].answers[i] # "ok"
    THEN IF Artifact THEN frame[p].runs[1]
         ELSE frame[p].assets[frame[p].sel].updated
    ELSE -1

\* The identity that was delivered before the last delivered one, as caller
\* p knows it when it enters Fetch; -1 if there is none.
DeliveredBeforeLast(p) ==
    IF pc[p] = "done" /\ ret[p].has
    THEN frame[p].preDelivered
    ELSE frame[p].before

\* The owner of the fetcher calls Fetch only after Init returned nil; a
\* fetcher whose Init failed is dropped.
FetchReachable == initErr = "ok"

\* A caller enters Fetch.
Call(p) ==
    /\ FetchReachable
    /\ pc[p] \in {"idle", "done"}
    /\ pc' = [pc EXCEPT ![p] = "Fetch"]
    /\ ret' = [ret EXCEPT ![p] = NoRet]
    /\ frame' = [frame EXCEPT ![p] = [NoFrame EXCEPT !.preRelease = latestRelease,
                                                     !.preRun = latestRun,
                                                     !.preDelivered = lastDelivered,
                                                     !.before = DeliveredBeforeLast(p),
                                                     !.retryOf = FailedDownloadOf(p),
                                                     !.first = ~fetched]]
    /\ fetched' = TRUE
    /\ UNCHANGED <<cfg, inner, initErr, env, lastDelivered>>

\* Faulty variant: the flag is read and the sleep is left out.
CheckDelayNoSleep(p) ==
    /\ pc[p] = "Fetch"
    /\ pc' = [pc EXCEPT ![p] = "SetDelay"]
    /\ frame' = [frame EXCEPT ![p].sawDelay = IF delay THEN "true" ELSE "false"]
    /\ UNCHANGED <<cfg, inner, initErr, env, ghost, ret>>

\* if h.delay
CheckDelay(p) ==
    /\ pc[p] = "Fetch"
    /\ pc' = [pc EXCEPT ![p] = IF delay THEN "Sleep" ELSE "SetDelay"]
    /\ frame' = [frame EXCEPT ![p].sawDelay = IF delay THEN "true" ELSE "false"]
    /\ UNCHANGED <<cfg, inner, initErr, env, ghost, ret>>

\* Faulty variant: the sleep is time.Minute, not h.Interval.
SleepMinute(p) ==
    /\ pc[p] = "Sleep"
    /\ elapsed' = Min(elapsed + Minute, MaxElapsed)
    /\ frame' = [frame EXCEPT ![p].slept = Minute]
    /\ pc' = [pc EXCEPT ![p] = "SetDelay"]
    /\ UNCHANGED <<cfg, inner, initErr, ctxDone, cancelAt, ghost, ret>>

\* time.Sleep(h.Interval) returns: it takes no context.
SleepDone(p) ==
    /\ pc[p] = "Sleep"
    /\ elapsed' = Min(elapsed + Interval, MaxElapsed)
    /\ frame' = [frame EXCEPT ![p].slept = Interval]
    /\ pc' = [pc EXCEPT ![p] = "SetDelay"]
    /\ UNCHANGED <<cfg, inner, initErr, ctxDone, cancelAt, ghost, ret>>

\* h.delay = true, then the first remote call of the configured strategy.
SetDelay(p) ==
    /\ pc[p] = "SetDelay"
    /\ delay' = TRUE
    /\ Issue(p, IF Artifact THEN "ListRuns" ELSE "GetLatestRelease",
             [frame[p] EXCEPT !.gap = elapsed])
    /\ elapsed' = 0
    /\ UNCHANGED <<cfg, latestRelease, latestRun, clients, initErr, ctxDone, cancelAt, ghost>>

\* ----------------------------------------------------- fetchLatestRelease
\* The locals of caller p once its call in flight answered o.
Answered(p, o) == [frame[p] EXCEPT !.answers = Append(@, o)]

GetLatestReleaseDone(p) ==
    /\ pc[p] = "GetLatestRelease"
    /\ \E out \in {"ok", "transport", "status", "non200"}, assets \in AssetLists :
         LET o  == WithContext(out)
             i  == FirstMatch(assets)
             fr == [Answered(p, o) EXCEPT !.assets = assets, !.sel = i,
                                          !.cmp = IF i = 0 THEN -1 ELSE latestRelease]
         IN  IF o \in {"transport", "status", "canceled"}
             THEN /\ Return(p, FALSE, <<>>, "failed to get last release", o)
                  /\ frame' = [frame EXCEPT ![p] = Answered(p, o)]
             ELSE IF o = "non200"
             THEN /\ Return(p, FALSE, <<>>, "failed to get last release", "status")
                  /\ frame' = [frame EXCEPT ![p] = Answered(p, o)]
             ELSE IF i = 0
             THEN /\ Return(p, FALSE, <<>>, "", "")
                  /\ frame' = [frame EXCEPT ![p] = fr]
             ELSE IF ReleaseSeen(assets[i].updated)
             THEN /\ Return(p, FALSE, <<>>, "no new release", "")
                  /\ frame' = [frame EXCEPT ![p] = fr]
             ELSE Issue(p, "DownloadReleaseAsset", fr)
    /\ elapsed' = 0
    /\ UNCHANGED <<cfg, inner, initErr, ctxDone, cancelAt, ghost>>

\* Faulty variant: the cursor is written before the error of the download is looked at.
DownloadReleaseAssetEager(p) ==
    /\ pc[p] = "DownloadReleaseAsset"
    /\ \E out \in {"ok", "transport", "status"}, body \in Bodies :
         LET o == WithContext(out)
             t == frame[p].assets[frame[p].sel].updated
         IN  /\ latestRelease' = t
             /\ IF o # "ok"
                THEN /\ Return(p, FALSE, <<>>, "failed to download release asset", o)
                     /\ frame' = [frame EXCEPT ![p] = Answered(p, o)]
                     /\ UNCHANGED lastDelivered
                ELSE /\ lastDelivered' = t
                     /\ frame' = [frame EXCEPT ![p] = [Answered(p, o) EXCEPT !.body = body]]
                     /\ Return(p, TRUE, body, "", "")
    /\ elapsed' = 0
    /\ UNCHANGED <<cfg, delay, latestRun, clients, initErr, ctxDone, cancelAt, fetched>>

\* Faulty variant: the cursor keeps the newest timestamp it has seen.
DownloadReleaseAssetNewest(p) ==
    /\ pc[p] = "DownloadReleaseAsset"
    /\ \E out \in {"ok", "transport", "status"}, body \in Bodies :
         LET o == WithContext(out)
             t == frame[p].assets[frame[p].sel].updated
         IN  IF o # "ok"
             THEN /\ Return(p, FALSE, <<>>, "failed to download release asset", o)
                  /\ frame' = [frame EXCEPT ![p] = Answered(p, o)]
                  /\ UNCHANGED <<latestRelease, lastDelivered>>
             ELSE /\ latestRelease' = IF t > latestRelease THEN t ELSE latestRelease
                  /\ lastDelivered' = t
                  /\ frame' = [frame EXCEPT ![p] = [Answered(p, o) EXCEPT !.body = body]]
                  /\ Return(p, TRUE, body, "", "")
    /\ elapsed' = 0
    /\ UNCHANGED <<cfg, delay, latestRun, clients, initErr, ctxDone, cancelAt, fetched>>

DownloadReleaseAssetDone(p) ==
    /\ pc[p] = "DownloadReleaseAsset"
    /\ \E out \in {"ok", "transport", "status"}, body \in Bodies :
         LET o == WithContext(out)
             t == frame[p].assets[frame[p].sel].updated
         IN  IF o # "ok"
             THEN /\ Return(p, FALSE, <<>>, "failed to download release asset", o)
                  /\ frame' = [frame EXCEPT ![p] = Answered(p, o)]
                  /\ UNCHANGED <<latestRelease, lastDelivered>>
             ELSE /\ latestRelease' = t
                  /\ lastDelivered' = t
                  /\ frame' = [frame EXCEPT ![p] = [Answered(p, o) EXCEPT !.body = body]]
                  /\ Return(p, TRUE, body, "", "")
    /\ elapsed' = 0
    /\ UNCHANGED <<cfg, delay, latestRun, clients, initErr, ctxDone, cancelAt, fetched>>

\* ---------------------------------------------------- fetchLatestArtifact
ListRunsDone(p) ==
    /\ pc[p] = "ListRuns"
    /\ \E out \in {"ok", "transport", "status"}, runs \in RunLists :
         LET o  == WithContext(out)
             fr == [Answered(p, o) EXCEPT !.runs = runs,
                                          !.cmp = IF NoRuns(runs) THEN -1 ELSE latestRun]
         IN  IF o # "ok"
             THEN /\ Return(p, FALSE, <<>>, "failed to get workflow runs", o)
                  /\ frame' = [frame EXCEPT ![p] = Answered(p, o)]
             ELSE IF NoRuns(runs)
             THEN /\ Return(p, FALSE, <<>>, "no successful workflow runs", "")
                  /\ frame' = [frame EXCEPT ![p] = fr]
             ELSE IF RunSeen(runs[1])
             THEN /\ Return(p, FALSE, <<>>, "no new run", "")
                  /\ frame' = [frame EXCEPT ![p] = fr]
             ELSE Issue(p, "ListArtifacts", fr)
    /\ elapsed' = 0
    /\ UNCHANGED <<cfg, inner, initErr, ctxDone, cancelAt, ghost>>

ListArtifactsDone(p) ==
    /\ pc[p] = "ListArtifacts"
    /\ \E out \in {"ok", "transport", "status"}, artifacts \in ArtifactLists :
         LET o  == WithContext(out)
             i  == FirstMatch(artifacts)
             fr == [Answered(p, o) EXCEPT !.artifacts = artifacts, !.sel = i]
         IN  IF o # "ok"
             THEN /\ Return(p, FALSE, <<>>, "failed to get workflow run artifacts", o)
                  /\ frame' = [frame EXCEPT ![p] = Answered(p, o)]
             ELSE IF NoArtifacts(artifacts)
             THEN /\ Return(p, FALSE, <<>>, "no artifacts found", "")
                  /\ frame' = [frame EXCEPT ![p] = fr]
             ELSE IF i = 0
             THEN /\ Return(p, FALSE, <<>>, "", "")
                  /\ frame' = [frame EXCEPT ![p] = fr]
             ELSE Issue(p, "DownloadArtifact", fr)
    /\ elapsed' = 0
    /\ UNCHANGED <<cfg, inner, initErr, ctxDone, cancelAt, ghost>>

\* Actions.DownloadArtifact answers with the redirect location, not content.
DownloadArtifactDone(p) ==
    /\ pc[p] = "DownloadArtifact"
    /\ \E out \in {"ok", "transport", "status"} :
         LET o == WithContext(out)
         IN  IF o # "ok"
             THEN /\ Return(p, FALSE, <<>>, "failed to download artifact", o)
                  /\ frame' = [frame EXCEPT ![p] = Answered(p, o)]
             ELSE Issue(p, "HttpGet", Answered(p, o))
    /\ elapsed' = 0
    /\ UNCHANGED <<cfg, inner, initErr, ctxDone, cancelAt, ghost>>

\* h.httpClient.Get(url): it takes no context, and a response with a
\* non-success status is not an error of Get.  The body of the response is
\* returned as it is.
HttpGetDone(p) ==
    /\ pc[p] = "HttpGet"
    /\ \E out \in {"ok", "transport", "status"}, body \in Bodies :
         IF out = "transport"
         THEN /\ Return(p, FALSE, <<>>, "failed to fetch artifact", out)
              /\ frame' = [frame EXCEPT ![p] = Answered(p, out)]
              /\ UNCHANGED <<latestRun, lastDelivered>>
         ELSE /\ latestRun' = frame[p].runs[1]
              /\ lastDelivered' = frame[p].runs[1]
              /\ frame' = [frame EXCEPT ![p] = [Answered(p, out) EXCEPT !.body = body]]
              /\ Return(p, TRUE, body, "", "")
    /\ elapsed' = 0
    /\ UNCHANGED <<cfg, delay, latestRelease, clients, initErr, ctxDone, cancelAt, fetched>>

\* One poll loop calls Fetch: a call starts when the previous one returned.
Next ==
    \/ GithubInit
    \/ Cancel
    \/ Call(Caller)
    \/ CheckDelay(Caller)
    \/ SleepDone(Caller)
    \/ SetDelay(Caller)
    \/ GetLatestReleaseDone(Caller)
    \/ DownloadReleaseAssetDone(Caller)
    \/ ListRunsDone(Caller)
    \/ ListArtifactsDone(Caller)
    \/ DownloadArtifactDone(Caller)
    \/ HttpGetDone(Caller)

Spec == Init /\ [][Next]_vars

\* ------------------------------------------- two callers, no synchronisation
\* A fetcher after a successful Init, shared by two callers.
InitConc ==
    /\ User = "glaslos"
    /\ Repo = "overseer"
    /\ Interval = Minute
    /\ Match = "defaultAsset"
    /\ Context = "background"
    /\ Artifact \in BOOLEAN
    /\ delay = FALSE
    /\ latestRelease = 0
    /\ latestRun = 0
    /\ clients = TRUE
    /\ initErr = "ok"
    /\ ctxDone = FALSE
    /\ cancelAt = [p \in Procs |-> ""]
    /\ elapsed = 0
    /\ fetched = FALSE
    /\ lastDelivered = -1
    /\ pc = [p \in Procs |-> "idle"]
    /\ ret = [p \in Procs |-> NoRet]
    /\ frame = [p \in Procs |-> NoFrame]

\* The remote side of the two-caller runs: listings of one item at most, and
\* one body.
SmallAnswers ==
    \A p \in Procs :
        /\ Len(frame[p].assets) <= 1
        /\ Len(frame[p].artifacts) <= 1
        /\ frame[p].body \in {<<>>, <<7>>}

\* Each of the two callers calls Fetch once.
CallOnce(p) == pc[p] = "idle" /\ Call(p)

\* The statements of the two Fetch calls interleave in any order.
NextConc ==
    \/ \E p \in Procs : CallOnce(p)
    \/ \E p \in Procs : CheckDelay(p)
    \/ \E p \in Procs : SleepDone(p)
    \/ \E p \in Procs : SetDelay(p)
    \/ \E p \in Procs : GetLatestReleaseDone(p) /\ SmallAnswers'
    \/ \E p \in Procs : DownloadReleaseAssetDone(p) /\ SmallAnswers'
    \/ \E p \in Procs : ListRunsDone(p)
    \/ \E p \in Procs : ListArtifactsDone(p) /\ SmallAnswers'
    \/ \E p \in Procs : DownloadArtifactDone(p)
    \/ \E p \in Procs : HttpGetDone(p) /\ SmallAnswers'

SpecConc == InitConc /\ [][NextConc]_vars

TypeOK ==
    /\ delay \in BOOLEAN
    /\ latestRelease \in Times
    /\ latestRun \in RunIds
    /\ elapsed \in 0..MaxElapsed
    /\ fetched \in BOOLEAN
    /\ \A p \in Procs : pc[p] \in Busy \cup {"idle", "done"}

\* ------------------------------------------------- vocabulary of the claims
Done(p) == pc[p] = "done"

\* Fetch returned a non-nil stream and a nil error.
Delivered(p) == Done(p) /\ ret[p].has /\ ret[p].err = ""

\* Fetch returned "matched, but already delivered".
NoNewItem(p) ==
    Done(p) /\ ~ret[p].has /\ ret[p].err \in {"no new release", "no new run"}

\* Fetch returned the neutral result: no stream, no error.
Neutral(p) == Done(p) /\ ~ret[p].has /\ ret[p].err = ""

\* Fetch returned no stream and an error.
Errored(p) == Done(p) /\ ~ret[p].has /\ ret[p].err # ""

Cursor       == IF Artifact THEN latestRun ELSE latestRelease
PreCursor(p) == IF Artifact THEN frame[p].preRun ELSE frame[p].preRelease

CursorKept(p) ==
    latestRelease = frame[p].preRelease /\ latestRun = frame[p].preRun

\* The remote call `call` of the running Fetch of p answered `o`.
AnsweredWith(p, call, o) ==
    \E i \in 1..Len(frame[p].answers) :
        frame[p].calls[i] = call /\ frame[p].answers[i] = o

Issued(p, call) == \E i \in 1..Len(frame[p].calls) : frame[p].calls[i] = call

DownloadCalls == {"DownloadReleaseAsset", "DownloadArtifact", "HttpGet"}

NoDownload(p) == \A c \in DownloadCalls : ~Issued(p, c)

\* Every remote call of the Fetch of p that answered, answered with success.
AllOk(p) == \A i \in 1..Len(frame[p].answers) : frame[p].answers[i] = "ok"

\* Some remote call of the Fetch of p ended in a transport error or a
\* non-success status.
SomeCallFailed(p) ==
    \E i \in 1..Len(frame[p].answers) :
        frame[p].answers[i] \in {"transport", "status", "non200"}

\* The Fetch of p saw an item that carries an identity: the first matching
\* asset of the release, or the most recent run.
SawIdentity(p) ==
    IF Artifact
    THEN AnsweredWith(p, "ListRuns", "ok") /\ Len(frame[p].runs) > 0
    ELSE AnsweredWith(p, "GetLatestRelease", "ok") /\ frame[p].sel # 0

Identity(p) ==
    IF Artifact THEN frame[p].runs[1]
    ELSE frame[p].assets[frame[p].sel].updated

\* The Fetch of p saw a matching candidate to download.
SawCandidate(p) ==
    /\ SawIdentity(p)
    /\ Artifact => AnsweredWith(p, "ListArtifacts", "ok") /\ frame[p].sel # 0

\* The listing the match predicate was applied to.
Listing(p) == IF Artifact THEN frame[p].artifacts ELSE frame[p].assets

\* ----------------------------------------------------------------- claims

\* C1: monotonic delivery.  A Fetch that delivers a candidate leaves the
\* cursor equal to the identity of that candidate; once an identity I was
\* delivered, a Fetch that sees identity I again returns NoNewItem and
\* downloads nothing, and a Fetch that sees a matching candidate of another
\* identity, all its remote calls succeeding, delivers it and moves the
\* cursor to that identity.
C1_MonotonicDelivery ==
    \A p \in Procs : Done(p) =>
        /\ Delivered(p) => Cursor = Identity(p)
        /\ (frame[p].preDelivered # -1 /\ SawIdentity(p)
                /\ Identity(p) = frame[p].preDelivered)
              => NoNewItem(p) /\ NoDownload(p) /\ Cursor = frame[p].preDelivered
        /\ (frame[p].preDelivered # -1 /\ SawCandidate(p)
                /\ Identity(p) # frame[p].preDelivered /\ AllOk(p))
              => Delivered(p) /\ Cursor = Identity(p)

C1_Witness ==
    /\ Delivered(Caller)
    /\ frame[Caller].preDelivered # -1
    /\ Identity(Caller) # frame[Caller].preDelivered
    /\ Cursor = Identity(Caller)

\* C2 as stated: a Fetch that returns anything but a stream with a nil error
\* leaves both cursor fields as they were before the call, and a cursor
\* field that is non-zero never becomes zero again.
C2_CursorNeverZeroAgain ==
    [][ /\ \A p \in Procs :
              (pc[p] # "done" /\ (Done(p) /\ ~Delivered(p))') => CursorKept(p)'
        /\ latestRelease # 0 => latestRelease' # 0
        /\ latestRun # 0 => latestRun' # 0 ]_vars

\* C2 amended: a Fetch that returns anything but a stream with a nil error
\* leaves both cursor fields as they were before the call, and a cursor
\* field changes only in the step in which a Fetch delivers, to the identity
\* of the delivered candidate (so it becomes zero again only when a
\* candidate whose identity is the zero value is delivered).
C2_CursorOnlyOnDelivery ==
    [][ /\ \A p \in Procs :
              (pc[p] # "done" /\ (Done(p) /\ ~Delivered(p))') => CursorKept(p)'
        /\ (latestRelease' # latestRelease \/ latestRun' # latestRun)
              => \E p \in Procs :
                    /\ pc[p] # "done"
                    /\ (Delivered(p) /\ Cursor = Identity(p))'
                    /\ IF Artifact THEN latestRelease' = latestRelease
                                   ELSE latestRun' = latestRun ]_vars

C2_Witness ==
    /\ Done(Caller) /\ Errored(Caller) /\ SomeCallFailed(Caller)
    /\ PreCursor(Caller) # 0
    /\ Cursor = PreCursor(Caller)

\* C3: a Fetch that sees an identity equal to the cursor returns NoNewItem,
\* issues no download and leaves the cursor as it was, however often it is
\* repeated.
C3_NoNewItemIdempotent ==
    \A p \in Procs :
        (Done(p) /\ SawIdentity(p) /\ Identity(p) = PreCursor(p))
          => NoNewItem(p) /\ NoDownload(p) /\ CursorKept(p)

\* The second of two Fetch calls in a row that see the identity of the cursor.
C3_Witness ==
    /\ NoNewItem(Caller)
    /\ ~frame[Caller].first
    /\ frame[Caller].preDelivered # -1
    /\ Identity(Caller) = PreCursor(Caller)

\* C4: a Fetch one of whose remote calls ended in a transport error or a
\* non-success status returns no stream and an error, and leaves the cursor
\* as it was.
C4_RemoteFailureIsHard ==
    \A p \in Procs :
        (Done(p) /\ SomeCallFailed(p)) => Errored(p) /\ CursorKept(p)

\* C5: the item a Fetch downloads is the one at the lowest index of the
\* listing whose name satisfies the predicate, and a Fetch downloads once.
C5_FirstMatchWins ==
    \A p \in Procs :
        ~NoDownload(p) =>
            /\ frame[p].sel \in 1..Len(Listing(p))
            /\ MatchFn(Listing(p)[frame[p].sel].name)
            /\ \A j \in 1..(frame[p].sel - 1) : ~MatchFn(Listing(p)[j].name)
            /\ \A c \in DownloadCalls :
                 Cardinality({i \in 1..Len(frame[p].calls) : frame[p].calls[i] = c}) <= 1

\* Two items match and the first one is downloaded.
C5_Witness ==
    /\ Delivered(Caller)
    /\ frame[Caller].sel = 1
    /\ Len(Listing(Caller)) = 2
    /\ MatchFn(Listing(Caller)[2].name)

\* C6: when the listing is not empty and no name satisfies the predicate,
\* Fetch returns no stream and no error, downloads nothing and leaves the
\* cursor as it was, also for a new run; "no new release" / "no new run" come
\* with an error.
C6_NoMatchIsNeutral ==
    \A p \in Procs : Done(p) =>
        /\ (/\ AnsweredWith(p, IF Artifact THEN "ListArtifacts" ELSE "GetLatestRelease", "ok")
            /\ Len(Listing(p)) > 0
            /\ \A j \in 1..Len(Listing(p)) : ~MatchFn(Listing(p)[j].name))
              => Neutral(p) /\ NoDownload(p) /\ CursorKept(p)
        /\ (SawIdentity(p) /\ Identity(p) = PreCursor(p))
              => ~Neutral(p) /\ ~ret[p].has /\ ret[p].err # ""

\* A new run none of whose artifacts matches.
C6_Witness ==
    /\ Artifact /\ Neutral(Caller)
    /\ Len(frame[Caller].artifacts) > 0
    /\ frame[Caller].runs[1] # frame[Caller].preRun
    /\ latestRun = frame[Caller].preRun

\* C7: in build-artifact mode an empty run listing, or an empty artifact
\* listing of a new run, makes Fetch return no stream and an error, never the
\* neutral result, and the cursor stays as it was.
C7_ZeroResultsIsHard ==
    \A p \in Procs :
        (/\ Done(p) /\ Artifact
         /\ \/ AnsweredWith(p, "ListRuns", "ok") /\ Len(frame[p].runs) = 0
            \/ AnsweredWith(p, "ListArtifacts", "ok") /\ Len(frame[p].artifacts) = 0)
          => Errored(p) /\ ~Neutral(p) /\ CursorKept(p)

\* A new run without artifacts.
C7_Witness ==
    /\ Artifact /\ Done(Caller)
    /\ AnsweredWith(Caller, "ListArtifacts", "ok")
    /\ Len(frame[Caller].artifacts) = 0
    /\ Errored(Caller)

\* C8: in build-artifact mode, when the body that came from the redirect
\* location is an archive of the entries es, at least one, the stream Fetch
\* returns is the content of the first entry.
C8_ArchiveUnwrap ==
    \A p \in Procs :
        (Delivered(p) /\ Artifact) =>
            \A es \in EntryLists :
                (Len(es) >= 1 /\ frame[p].body = ZipBytes(es))
                  => ret[p].stream = <<es[1]>>

\* C9: the first Fetch reaches its first remote call without sleeping; every
\* later Fetch has slept the whole Interval before its first remote call,
\* which is at least Interval after the last remote call of the Fetch before.
C9_RateLimit ==
    \A p \in Procs :
        pc[p] \in InCall \cup {"done"} =>
            IF frame[p].first
            THEN frame[p].slept = 0
            ELSE frame[p].slept = Interval /\ frame[p].gap >= Interval

\* A later Fetch, in a remote call.
C9_Witness ==
    /\ pc[Caller] \in InCall
    /\ ~frame[Caller].first
    /\ frame[Caller].slept >= Minute

\* C10: when the context becomes done while a Fetch sleeps or is in a remote
\* call, the Fetch leaves that sleep or call by returning the cancellation
\* error: no stream, the sleep not finished, the cursor as it was.
C10_CancellationBounds ==
    [][ \A p \in Procs :
          (/\ cancelAt[p] \in InCall \cup {"Sleep"}
           /\ pc[p] = cancelAt[p]
           /\ pc'[p] # pc[p])
            => /\ pc'[p] = "done"
               /\ ret'[p].cause = "canceled" /\ ~ret'[p].has
               /\ frame'[p].slept = frame[p].slept
               /\ latestRelease' = latestRelease /\ latestRun' = latestRun ]_vars

\* C11: once Init was called on a configuration whose User or Repo is empty,
\* it has returned a configuration error, and nothing of Fetch ever happens:
\* no caller is in Fetch or has returned from it, no remote call was issued,
\* the delay flag and the cursor have their initial values.
C11_InitRejectsMissingIdentity ==
    (initErr # "none" /\ (User = "" \/ Repo = "")) =>
        /\ initErr \in {"user required", "repo required"}
        /\ ~clients
        /\ \A p \in Procs : pc[p] = "idle" /\ frame[p].calls = <<>> /\ ret[p] = NoRet
        /\ ~fetched /\ ~delay /\ latestRelease = 0 /\ latestRun = 0

\* Init has refused a configuration without a repository name.
C11_Witness == initErr = "repo required" /\ User # "" /\ Repo = ""

\* C12: a successful Init leaves User and Repo as they were, non-empty, and
\* sets Interval to one minute when it was below and leaves it otherwise;
\* from then on User and Repo are non-empty, Interval is at least one minute,
\* and no step changes User, Repo, Interval, Match or Artifact.
C12_ConfigurationInvariant ==
    [][ /\ (initErr = "none" /\ initErr' = "ok") =>
              /\ User' = User /\ Repo' = Repo /\ Artifact' = Artifact
              /\ User' # "" /\ Repo' # ""
              /\ Interval' = (IF Interval < Minute THEN Minute ELSE Interval)
        /\ initErr = "ok" =>
              /\ User # "" /\ Repo # "" /\ Interval >= Minute
              /\ UNCHANGED <<User, Repo, Interval, Match, Artifact>> ]_vars

\* A second Fetch has returned on a fetcher whose Interval is the floor.
C12_Witness ==
    /\ initErr = "ok" /\ Done(Caller) /\ ~frame[Caller].first
    /\ Interval = Minute /\ User # "" /\ Repo # ""

\* The bytes b open as an archive that has at least one entry.
OpensWithEntry(b) == \E es \in EntryLists : Len(es) >= 1 /\ b = ZipBytes(es)

\* C13: in build-artifact mode, when the body that was downloaded does not
\* open as an archive, or the archive has no entry, Fetch returns no stream
\* and an error, and latestRun is what it was before the call.
C13_BadArchiveKeepsCursor ==
    \A p \in Procs :
        (/\ Done(p) /\ Artifact
         /\ AnsweredWith(p, "HttpGet", "ok")
         /\ ~OpensWithEntry(frame[p].body))
          => Errored(p) /\ latestRun = frame[p].preRun

\* C14: when the download of a candidate failed in a Fetch, and the next
\* Fetch sees the same candidate again (its listings answer, and show the
\* same identity and a match), that Fetch requests the download again.
C14_RetrySameItem ==
    \A p \in Procs :
        (/\ Done(p)
         /\ frame[p].retryOf # -1
         /\ SawIdentity(p) /\ Identity(p) = frame[p].retryOf
         /\ Artifact => (Issued(p, "ListArtifacts") => SawCandidate(p)))
          => Issued(p, IF Artifact THEN "DownloadArtifact" ELSE "DownloadReleaseAsset")

\* C15: in release mode, a release that has no asset at all makes Fetch
\* return no stream and an error, not the neutral result.
C15_EmptyReleaseIsHard ==
    \A p \in Procs :
        (/\ Done(p) /\ ~Artifact
         /\ AnsweredWith(p, "GetLatestRelease", "ok")
         /\ Len(frame[p].assets) = 0)
          => Errored(p) /\ ~Neutral(p)

\* C16: in release mode a matching asset whose update timestamp is earlier
\* than the cursor is delivered, all remote calls succeeding, and the cursor
\* is then that earlier timestamp.
C16_EqualityNotOrdering ==
    \A p \in Procs :
        (/\ Done(p) /\ ~Artifact
         /\ SawCandidate(p) /\ AllOk(p)
         /\ Identity(p) < frame[p].preRelease)
          => Delivered(p) /\ latestRelease = Identity(p) /\ latestRelease < frame[p].preRelease

\* The cursor went back: an earlier timestamp was delivered, and it is one
\* that had been delivered before the last delivered one.
C16_Witness ==
    /\ ~Artifact /\ Delivered(Caller)
    /\ Identity(Caller) < frame[Caller].preRelease
    /\ latestRelease = Identity(Caller)
    /\ frame[Caller].preDelivered # Identity(Caller)
    /\ frame[Caller].before = Identity(Caller)

\* The remote calls of one Fetch, in the order of the code.
CallOrder ==
    IF Artifact THEN <<"ListRuns", "ListArtifacts", "DownloadArtifact", "HttpGet">>
    ELSE <<"GetLatestRelease", "DownloadReleaseAsset">>

\* C17: the remote calls of a Fetch are a prefix of the order of its mode,
\* so each is issued once at most and there is one download at most; in
\* build-artifact mode the artifacts are listed only for a run whose id is
\* not the cursor, and a Fetch that sees the run id of the cursor returns
\* "no new run" with the run listing as its only remote call.
C17_OrderOfSteps ==
    \A p \in Procs :
        /\ Len(frame[p].calls) <= Len(CallOrder)
        /\ \A i \in 1..Len(frame[p].calls) : frame[p].calls[i] = CallOrder[i]
        /\ (Artifact /\ Issued(p, "ListArtifacts")) =>
              (AnsweredWith(p, "ListRuns", "ok") /\ frame[p].runs[1] # frame[p].preRun)
        /\ (/\ Done(p) /\ Artifact
            /\ AnsweredWith(p, "ListRuns", "ok") /\ Len(frame[p].runs) > 0
            /\ frame[p].runs[1] = frame[p].preRun)
              => /\ ret[p].err = "no new run" /\ ~ret[p].has
                 /\ frame[p].calls = <<"ListRuns">>

\* A Fetch has seen again the run that an earlier Fetch delivered.
C17_Witness ==
    /\ Artifact /\ Done(Caller)
    /\ ret[Caller].err = "no new run"
    /\ frame[Caller].preDelivered = frame[Caller].runs[1]
    /\ frame[Caller].calls = <<"ListRuns">>

\* C18: the first Fetch that sees a matching candidate, all its remote calls
\* succeeding, delivers it whatever its identity is, and "no new release" /
\* "no new run" is returned only for an identity that was delivered before.
C18_FirstFetchDelivers ==
    \A p \in Procs : Done(p) =>
        /\ (frame[p].first /\ SawCandidate(p) /\ AllOk(p)) => Delivered(p)
        /\ NoNewItem(p) =>
              (frame[p].preDelivered # -1 /\ Identity(p) = frame[p].preDelivered)

\* Caller p has passed the comparison with the cursor and goes on to, or is
\* back from, the download.
PastComparison(p) ==
    \/ pc[p] \in {"DownloadReleaseAsset", "ListArtifacts", "DownloadArtifact", "HttpGet"}
    \/ Delivered(p)

\* C19: nothing but its own reads protects a caller.  A caller goes past the
\* comparison exactly on a cursor value, as it read it, that differs from the
\* identity it saw, whatever the other caller is about to write; and a caller
\* sleeps exactly when it read the delay flag as set, whatever the other
\* caller is about to set.  (The witness is the run in which that lets both
\* callers deliver the same identity without sleeping.)
C19_OnlyOwnReadsProtect ==
    \A p \in Procs :
        /\ PastComparison(p) => frame[p].cmp # Identity(p)
        /\ (Done(p) /\ SawIdentity(p) /\ frame[p].cmp # Identity(p)
                /\ ~SomeCallFailed(p) /\ SawCandidate(p)) => Delivered(p)
        /\ pc[p] \in InCall \cup {"SetDelay", "done"} =>
              /\ frame[p].sawDelay = "false" => frame[p].slept = 0
              /\ frame[p].sawDelay = "true" => frame[p].slept = Interval

\* Duplicate delivery: both callers have read the flag before either set it
\* and the cursor before either wrote it, and both have delivered the same
\* identity without sleeping.
C19_Witness ==
    /\ \A p \in Procs :
          /\ Delivered(p)
          /\ frame[p].sawDelay = "false" /\ frame[p].slept = 0
          /\ frame[p].cmp = 0
    /\ Identity(1) = Identity(2)
    /\ Cursor = Identity(1)

====
